---- MODULE Spec2Model ----
(***************************************************************************)
(* Zero Gravity stamp parser (src/unnamed/part_000, required by cli.cjs as *)
(* ./src/parser.cjs) and embedder (src/src/embedder.cjs).                  *)
(*                                                                         *)
(* Strings are sequences of atoms.  An atom is one character ("\n", ":",   *)
(* " ", "\"", "'", "-", "a", ...) or a run of ordinary characters that the *)
(* code never looks inside (a marker, a key name, a vocabulary word)       *)
(* written as one TLA+ string.  No atom of more than one character that    *)
(* appears in an input holds white space, a colon or a quote, or starts    *)
(* with a hyphen; the fixed texts the code only writes (error messages,    *)
(* the labels of the embedding text) are one atom each.                    *)
(***************************************************************************)
EXTENDS Integers, Sequences, FiniteSets, TLC

VARIABLES
    pc,        \* "input" before a call, then the name of the last function called
    text,      \* document text given to extractBlock / parseZG
    block,     \* result of extractBlock(text)
    zg,        \* result of parseZG(text)
    blockBody, \* block body given to parseBlock
    fieldMap,  \* a field map: parseBlock's result, or the caller's object
    result,    \* { valid, errors } of validateStamp / validateFullJSON
    stamp,     \* text returned by formatStamp(fieldMap)
    reparsed,  \* parseBlock(extractBlock(stamp).body)
    other,     \* a second object holding properties of fieldMap in another order
    embText,   \* fieldsToEmbeddingText(fieldMap)
    otherText, \* fieldsToEmbeddingText(other)
    embeddingArg, \* embedding argument of buildFullJSON
    now,       \* what new Date().toISOString() returns at the call
    fullJSON,  \* result of buildFullJSON({ fields: fieldMap, embedding: embeddingArg })
    rawValue,  \* text given to stripQuotes
    stripped,  \* stripQuotes(rawValue)
    versionArg, \* version argument of formatStamp / formatStampWithHeader
    infoUrlArg, \* infoUrl argument of formatStampWithHeader
    stampWithHeader, \* text returned by formatStampWithHeader
    scanLines, \* parseBlock: body.split('\n')
    scanIndex, \* parseBlock: i, the index of the line the scanner is at
    scanKey,   \* parseBlock: key of the list header whose items are being collected
    scanItems  \* parseBlock: items collected so far (both empty outside a list)

\* The variables of buildFullJSON, stripQuotes, the formatStamp arguments and the scanner
Later == <<embeddingArg, now, fullJSON, rawValue, stripped, versionArg, infoUrlArg,
           stampWithHeader, scanLines, scanIndex, scanKey, scanItems>>

vars == <<pc, text, block, zg, blockBody, fieldMap, result, stamp, reparsed,
          other, embText, otherText, Later>>

---------------------------------------------------------------------------
(* Characters and literals                                                 *)

NL == "\n"
DQ == "\""
SQ == "'"
SP == " "

\* ECMAScript StrWhiteSpaceChar as far as the model's alphabet goes (String.prototype.trim)
WhiteSpace == {" ", "\t", "\r", "\n"}

BEGIN_MARKER == "---BEGIN ZERO GRAVITY---"
END_MARKER == "---END ZERO GRAVITY---"

\* JavaScript null (extractBlock's and parseZG's "no match").
NULL == [kind |-> "null"]

---------------------------------------------------------------------------
(* String and array primitives of the language runtime                     *)

\* Array.prototype.join / the inverse of String.prototype.split: parts joined by sep
RECURSIVE Join(_, _)
Join(parts, sep) ==
    IF Len(parts) = 0 THEN <<>>
    ELSE IF Len(parts) = 1 THEN parts[1]
    ELSE parts[1] \o sep \o Join(Tail(parts), sep)

\* String.prototype.split('\n'): always at least one piece
RECURSIVE SplitFrom(_, _, _)
SplitFrom(s, n, cur) ==
    IF n > Len(s) THEN <<cur>>
    ELSE IF s[n] = NL THEN <<cur>> \o SplitFrom(s, n + 1, <<>>)
    ELSE SplitFrom(s, n + 1, Append(cur, s[n]))

Split(s) == SplitFrom(s, 1, <<>>)

---------------------------------------------------------------------------
(* extractBlock: text.match(ZG_BLOCK_REGEX)                                *)
(*   /---BEGIN ZERO GRAVITY---\n([\s\S]*?)\n---END ZERO GRAVITY---/        *)

\* The lazy group ([\s\S]*?) followed by \n---END ZERO GRAVITY---: starting with the
\* empty group at position e, the group grows one character at a time until the
\* rest of the pattern matches; 0 when it never does.
RECURSIVE LazyEnd(_, _)
LazyEnd(t, e) ==
    IF e + 1 > Len(t) THEN 0
    ELSE IF t[e] = NL /\ t[e + 1] = END_MARKER THEN e
    ELSE LazyEnd(t, e + 1)

\* The pattern tried at start position s: the position of the closing "\n", or 0.
ZG_BLOCK_REGEX(t, s) ==
    IF s + 1 <= Len(t) /\ t[s] = BEGIN_MARKER /\ t[s + 1] = NL
    THEN LazyEnd(t, s + 2)
    ELSE 0

\* The regex engine tries start positions left to right and returns the first match.
RECURSIVE MatchFrom(_, _)
MatchFrom(t, s) ==
    IF s > Len(t) THEN NULL
    ELSE LET e == ZG_BLOCK_REGEX(t, s)
         IN  IF e # 0
             THEN [raw |-> SubSeq(t, s, e + 1), body |-> SubSeq(t, s + 2, e - 1)]
             ELSE MatchFrom(t, s + 1)

\* A mutation of extractBlock: an unclosed block is returned up to the end of the text.
extractBlockUnclosed(t) ==
    IF MatchFrom(t, 1) # NULL THEN MatchFrom(t, 1)
    ELSE IF \E s \in 1..(Len(t) - 1) : t[s] = BEGIN_MARKER /\ t[s + 1] = NL
    THEN LET s == CHOOSE n \in 1..(Len(t) - 1) : t[n] = BEGIN_MARKER /\ t[n + 1] = NL
         IN  [raw |-> SubSeq(t, s, Len(t)), body |-> SubSeq(t, s + 2, Len(t))]
    ELSE NULL

extractBlock(t) == MatchFrom(t, 1)

---------------------------------------------------------------------------
(* JavaScript values and objects                                           *)

UNDEFINED == [kind |-> "undefined"]
Str(s) == [kind |-> "string", val |-> s]
List(items) == [kind |-> "array", val |-> items]

IsString(v) == v.kind = "string"
IsArray(v) == v.kind = "array"

\* ToBoolean: undefined, null and "" are falsy; every array is truthy
Truthy(v) ==
    CASE v.kind = "undefined" -> FALSE
      [] v.kind = "null" -> FALSE
      [] v.kind = "string" -> v.val # <<>>
      [] v.kind = "array" -> TRUE
      [] v.kind = "object" -> TRUE

\* ToString, as a template literal applies it: an array is its items joined by ","
ToStr(v) ==
    CASE v.kind = "undefined" -> <<"undefined">>
      [] v.kind = "null" -> <<"null">>
      [] v.kind = "string" -> v.val
      [] v.kind = "array" -> Join(v.val, <<",">>)
      [] v.kind = "object" -> <<"[object Object]">>

\* An object is the sequence of its own properties in insertion order
\* (the keys of the model are never integer-like and never "__proto__").
Keys(obj) == [n \in 1..Len(obj) |-> obj[n].key]
HasKey(obj, k) == \E n \in 1..Len(obj) : obj[n].key = k

\* obj[k] / obj.k
Get(obj, k) ==
    IF HasKey(obj, k)
    THEN obj[CHOOSE n \in 1..Len(obj) : obj[n].key = k].val
    ELSE UNDEFINED

\* A mutation of the assignment: the old property is removed and the new one added last.
SetMovesKey(obj, k, v) ==
    SelectSeq(obj, LAMBDA p : p.key # k) \o <<[key |-> k, val |-> v]>>

\* obj[k] = v: an existing property keeps its place, a new one is added last
Set(obj, k, v) ==
    IF HasKey(obj, k)
    THEN [n \in 1..Len(obj) |-> IF obj[n].key = k THEN [key |-> k, val |-> v] ELSE obj[n]]
    ELSE Append(obj, [key |-> k, val |-> v])

---------------------------------------------------------------------------
(* stripQuotes and parseBlock                                              *)

RECURSIVE TrimStart(_)
TrimStart(s) ==
    IF s # <<>> /\ s[1] \in WhiteSpace THEN TrimStart(Tail(s)) ELSE s

RECURSIVE TrimEnd(_)
TrimEnd(s) ==
    IF s # <<>> /\ s[Len(s)] \in WhiteSpace THEN TrimEnd(SubSeq(s, 1, Len(s) - 1)) ELSE s

\* String.prototype.trim
Trim(s) == TrimEnd(TrimStart(s))

\* String.prototype.indexOf for one character, 0-based, -1 when absent
IndexOf(s, c) ==
    IF \E n \in 1..Len(s) : s[n] = c
    THEN (CHOOSE n \in 1..Len(s) : s[n] = c /\ \A m \in 1..(n - 1) : s[m] # c) - 1
    ELSE -1

\* String.prototype.slice(from, to) with 0 <= from and 0 <= to, 0-based, to exclusive
Slice(s, from, to) == SubSeq(s, from + 1, to)

StartsWith(s, prefix) ==
    Len(s) >= Len(prefix) /\ SubSeq(s, 1, Len(prefix)) = prefix

EndsWith(s, suffix) ==
    Len(s) >= Len(suffix) /\ SubSeq(s, Len(s) - Len(suffix) + 1, Len(s)) = suffix

stripQuotes(value) ==
    LET trimmed == Trim(value)
    IN  IF (StartsWith(trimmed, <<DQ>>) /\ EndsWith(trimmed, <<DQ>>))
           \/ (StartsWith(trimmed, <<SQ>>) /\ EndsWith(trimmed, <<SQ>>))
        THEN Slice(trimmed, 1, Len(trimmed) - 1)      \* slice(1, -1)
        ELSE trimmed

\* The inner while loop (lines 81-90): from line index i (0-based) on, the "- " lines
\* are collected until the first line that is not one.
RECURSIVE CollectItems(_, _, _)
CollectItems(lines, i, items) ==
    IF i < Len(lines)
    THEN LET nextTrimmed == Trim(lines[i + 1])
         IN  IF StartsWith(nextTrimmed, <<"-", SP>>)
             THEN CollectItems(lines, i + 1,
                               Append(items, stripQuotes(Slice(nextTrimmed, 2, Len(nextTrimmed)))))
             ELSE [i |-> i, items |-> items]
    ELSE [i |-> i, items |-> items]

\* A mutation of lines 91-93: the list is stored even when it has no item.
StoreList(fields, key, items) == Set(fields, key, List(items))

\* Lines 91-93: if (items.length > 0) fields[key] = items
StoreItems(fields, key, items) ==
    IF Len(items) > 0 THEN Set(fields, key, List(items)) ELSE fields

\* One iteration of the outer while loop (lines 65-99) at line index i (0-based).
ParseLine(lines, i, fields) ==
    LET line == lines[i + 1]
        trimmed == Trim(line)
        colonIdx == IndexOf(trimmed, ":")
        key == Trim(Slice(trimmed, 0, colonIdx))
        afterColon == Trim(Slice(trimmed, colonIdx + 1, Len(trimmed)))
    IN  IF trimmed = <<>> THEN [i |-> i + 1, fields |-> fields]
        ELSE IF colonIdx = -1 THEN [i |-> i + 1, fields |-> fields]
        ELSE IF key = <<>> THEN [i |-> i + 1, fields |-> fields]
        ELSE IF afterColon = <<>>
        THEN LET list == CollectItems(lines, i + 1, <<>>)
             IN  [i |-> list.i, fields |-> StoreItems(fields, key, list.items)]
        ELSE [i |-> i + 1, fields |-> Set(fields, key, Str(stripQuotes(afterColon)))]

\* The outer while loop: while (i < lines.length)
RECURSIVE ParseFrom(_, _, _)
ParseFrom(lines, i, fields) ==
    IF i < Len(lines)
    THEN LET next == ParseLine(lines, i, fields)
         IN  ParseFrom(lines, next.i, next.fields)
    ELSE fields

parseBlock(body) == ParseFrom(Split(body), 0, <<>>)

---------------------------------------------------------------------------
(* validateStamp and validateFullJSON                                      *)

\* Property names and literal values are strings of one atom.
K(name) == <<name>>

\* A mutation of the list: indexes is not required.
STAMP_REQUIRED_WITHOUT_INDEXES == <<K("encoding"), K("version"), K("title"), K("intent")>>

STAMP_REQUIRED_FIELDS == <<K("encoding"), K("version"), K("title"), K("intent"), K("indexes")>>
JSON_REQUIRED_FIELDS == <<K("id"), K("intent"), K("relevance"), K("claims")>>
VALID_INTENTS == <<K("proposal"), K("critique"), K("synthesis"), K("report"), K("design")>>
VALID_STANCES == <<K("speculative"), K("empirical"), K("prescriptive"), K("exploratory")>>

\* Array.prototype.includes on an array of strings
Includes(arr, v) == IsString(v) /\ \E n \in 1..Len(arr) : arr[n] = v.val

\* The atoms made only of the characters a-z, 0-9 and "-"
IdAtoms ==
    {"a", "b", "c", "d", "e", "x", "y", "z", "0", "1", "2", "9", "-",
     "id", "title", "intent", "relevance", "claims", "indexes", "tags", "relations",
     "encoding", "version", "stance", "zero-gravity", "undefined", "null",
     "proposal", "critique", "synthesis", "report", "design",
     "speculative", "empirical", "prescriptive", "exploratory"}

\* A mutation of the pattern: /^[a-z0-9-]+$/i, upper case letters pass too.
IdPatternTestIgnoreCase(s) == Len(s) > 0 /\ \A n \in 1..Len(s) : s[n] \in IdAtoms \cup {"B"}

\* /^[a-z0-9-]+$/.test(s)
IdPatternTest(s) == Len(s) > 0 /\ \A n \in 1..Len(s) : s[n] \in IdAtoms

\* Lines 115-121 for one required field
StampFieldErrors(fields, field) ==
    LET v == Get(fields, field)
    IN  IF ~Truthy(v) THEN << <<"Missing required stamp field: ">> \o field >>
        ELSE IF IsString(v) /\ Trim(v.val) = <<>>
        THEN << <<"Required stamp field is empty: ">> \o field >>
        ELSE IF IsArray(v) /\ Len(v.val) = 0
        THEN << <<"Required stamp field is empty: ">> \o field >>
        ELSE <<>>

\* Lines 141-147 for one required field
JsonFieldErrors(json, field) ==
    LET v == Get(json, field)
    IN  IF v = UNDEFINED \/ v = NULL THEN << <<"Missing required field: ">> \o field >>
        ELSE IF IsString(v) /\ Trim(v.val) = <<>>
        THEN << <<"Required field is empty: ">> \o field >>
        ELSE IF IsArray(v) /\ Len(v.val) = 0
        THEN << <<"Required field is empty: ">> \o field >>
        ELSE <<>>

\* for (const field of REQUIRED) { ... errors.push(...) }
RECURSIVE StampRequiredErrors(_, _)
StampRequiredErrors(fields, required) ==
    IF required = <<>> THEN <<>>
    ELSE StampFieldErrors(fields, Head(required)) \o StampRequiredErrors(fields, Tail(required))

RECURSIVE JsonRequiredErrors(_, _)
JsonRequiredErrors(json, required) ==
    IF required = <<>> THEN <<>>
    ELSE JsonFieldErrors(json, Head(required)) \o JsonRequiredErrors(json, Tail(required))

\* Lines 124-126
EncodingErrors(fields) ==
    LET encoding == Get(fields, K("encoding"))
    IN  IF Truthy(encoding) /\ encoding # Str(K("zero-gravity"))
        THEN << <<"Unexpected encoding: \"">> \o ToStr(encoding)
                  \o <<"\" (expected \"zero-gravity\")">> >>
        ELSE <<>>

\* A mutation of the result: one error is still valid.
ResultLenient(errors) == [valid |-> Len(errors) <= 1, errors |-> errors]

\* Line 128 / 170: { valid: errors.length === 0, errors }
Result(errors) == [valid |-> Len(errors) = 0, errors |-> errors]

\* A mutation of validateStamp: the encoding error stands in for the others.
validateStampSubstitutes(fields) ==
    Result(IF EncodingErrors(fields) # <<>> THEN EncodingErrors(fields)
           ELSE StampRequiredErrors(fields, STAMP_REQUIRED_FIELDS))

validateStamp(fields) ==
    Result(StampRequiredErrors(fields, STAMP_REQUIRED_FIELDS) \o EncodingErrors(fields))

\* Lines 150-152
IntentErrors(json) ==
    LET intent == Get(json, K("intent"))
    IN  IF Truthy(intent) /\ ~Includes(VALID_INTENTS, intent)
        THEN << <<"Invalid intent value: \"">> \o ToStr(intent)
                  \o <<"\". Must be one of: ">> \o Join(VALID_INTENTS, <<", ">>) >>
        ELSE <<>>

\* Lines 154-156
StanceErrors(json) ==
    LET stance == Get(json, K("stance"))
    IN  IF Truthy(stance) /\ ~Includes(VALID_STANCES, stance)
        THEN << <<"Invalid stance value: \"">> \o ToStr(stance)
                  \o <<"\". Must be one of: ">> \o Join(VALID_STANCES, <<", ">>) >>
        ELSE <<>>

MIN_CLAIMS == 3
MAX_CLAIMS == 7

\* A mutation of lines 159-163: the bounds are exclusive.
ClaimsErrorsExclusive(json) ==
    LET claims == Get(json, K("claims"))
    IN  IF IsArray(claims)
        THEN IF Len(claims.val) <= MIN_CLAIMS
             THEN << <<"claims should have at least 3 items (found ", ToString(Len(claims.val)), ")">> >>
             ELSE IF Len(claims.val) >= MAX_CLAIMS
             THEN << <<"claims should have at most 7 items (found ", ToString(Len(claims.val)), ")">> >>
             ELSE <<>>
        ELSE <<>>

\* Lines 158-164
ClaimsErrors(json) ==
    LET claims == Get(json, K("claims"))
    IN  IF IsArray(claims)
        THEN IF Len(claims.val) < MIN_CLAIMS
             THEN << <<"claims should have at least 3 items (found ", ToString(Len(claims.val)), ")">> >>
             ELSE IF Len(claims.val) > MAX_CLAIMS
             THEN << <<"claims should have at most 7 items (found ", ToString(Len(claims.val)), ")">> >>
             ELSE <<>>
        ELSE <<>>

\* Lines 166-168
IdErrors(json) ==
    LET id == Get(json, K("id"))
    IN  IF Truthy(id) /\ ~IdPatternTest(ToStr(id))
        THEN << <<"id must be lowercase alphanumeric with hyphens: \"">> \o ToStr(id) \o <<"\"">> >>
        ELSE <<>>

validateFullJSON(json) ==
    Result(JsonRequiredErrors(json, JSON_REQUIRED_FIELDS)
           \o IntentErrors(json) \o StanceErrors(json) \o ClaimsErrors(json) \o IdErrors(json))

---------------------------------------------------------------------------
(* parseZG                                                                 *)

DEFAULT_VERSION == K("0.1")

parseZG(t) ==
    LET extracted == extractBlock(t)
    IN  IF extracted = NULL THEN NULL
        ELSE LET fields == parseBlock(extracted.body)
                 validation == validateStamp(fields)
             IN  [version |-> IF Truthy(Get(fields, K("version")))
                              THEN Get(fields, K("version"))
                              ELSE Str(DEFAULT_VERSION),
                  fields |-> fields,
                  raw |-> extracted.raw,
                  validation |-> validation]

---------------------------------------------------------------------------
(* formatStamp                                                             *)

\* A mutation of the item lines: the last item comes first.
RECURSIVE ItemLinesReversed(_)
ItemLinesReversed(items) ==
    IF items = <<>> THEN <<>>
    ELSE ItemLinesReversed(Tail(items)) \o << <<SP, SP, "-", SP, DQ>> \o Head(items) \o <<DQ>> >>

\* `  - "${item}"` for each item of fields.indexes
RECURSIVE ItemLines(_)
ItemLines(items) ==
    IF items = <<>> THEN <<>>
    ELSE << <<SP, SP, "-", SP, DQ>> \o Head(items) \o <<DQ>> >> \o ItemLines(Tail(items))

\* A mutation of the scalar line: `key: ${value}`, the value not quoted.
ScalarLineUnquoted(key, value) == key \o <<":", SP>> \o value

\* `key: "${value}"`
ScalarLine(key, value) == key \o <<":", SP, DQ>> \o value \o <<DQ>>

formatStamp(fields, version) ==
    LET title == Get(fields, K("title"))
        intent == Get(fields, K("intent"))
        indexes == Get(fields, K("indexes"))
    IN  Join(<< <<BEGIN_MARKER>>,
                ScalarLine(K("encoding"), K("zero-gravity")),
                ScalarLine(K("version"), version) >>
             \o (IF Truthy(title) THEN <<ScalarLine(K("title"), ToStr(title))>> ELSE <<>>)
             \o (IF Truthy(intent) THEN <<ScalarLine(K("intent"), ToStr(intent))>> ELSE <<>>)
             \o (IF IsArray(indexes) /\ Len(indexes.val) > 0
                 THEN << K("indexes") \o <<":">> >> \o ItemLines(indexes.val)
                 ELSE <<>>)
             \o << <<END_MARKER>> >>,
             <<NL>>)

---------------------------------------------------------------------------
(* fieldsToEmbeddingText                                                   *)

EMBEDDING_KEYS ==
    <<K("title"), K("intent"), K("relevance"), K("indexes"), K("claims"), K("tags"), K("relations")>>

\* The line pushed for one property, <<>> when none is pushed (lines 34-48)
EmbeddingPart(key, v) ==
    CASE key = K("title") -> IF Truthy(v) THEN << <<"Title: ">> \o ToStr(v) >> ELSE <<>>
      [] key = K("intent") -> IF Truthy(v) THEN << <<"Intent: ">> \o ToStr(v) >> ELSE <<>>
      [] key = K("relevance") -> IF Truthy(v) THEN << <<"Relevance: ">> \o ToStr(v) >> ELSE <<>>
      [] key = K("indexes") -> IF IsArray(v) THEN << <<"Indexes: ">> \o Join(v.val, <<"; ">>) >> ELSE <<>>
      [] key = K("claims") -> IF IsArray(v) THEN << <<"Claims: ">> \o Join(v.val, <<"; ">>) >> ELSE <<>>
      [] key = K("tags") -> IF IsArray(v) THEN << <<"Tags: ">> \o Join(v.val, <<", ">>) >> ELSE <<>>
      [] key = K("relations") -> IF IsArray(v) THEN << <<"Relations: ">> \o Join(v.val, <<", ">>) >> ELSE <<>>
      [] OTHER -> <<>>

\* A mutation of the parts: the last field's line comes first.
RECURSIVE EmbeddingPartsReversed(_, _)
EmbeddingPartsReversed(fields, keys) ==
    IF keys = <<>> THEN <<>>
    ELSE EmbeddingPartsReversed(fields, Tail(keys)) \o EmbeddingPart(Head(keys), Get(fields, Head(keys)))

RECURSIVE EmbeddingParts(_, _)
EmbeddingParts(fields, keys) ==
    IF keys = <<>> THEN <<>>
    ELSE EmbeddingPart(Head(keys), Get(fields, Head(keys))) \o EmbeddingParts(fields, Tail(keys))

\* A mutation of fieldsToEmbeddingText: the parts follow the object's own key order.
embeddingTextInKeyOrder(fields) ==
    Join(EmbeddingParts(fields, Keys(fields)), <<NL>>)

fieldsToEmbeddingText(fields) ==
    Join(EmbeddingParts(fields, EMBEDDING_KEYS), <<NL>>)

---------------------------------------------------------------------------
(* Inputs                                                                  *)

\* A variable no call has set yet
NONE == [kind |-> "none"]

\* No call of buildFullJSON, stripQuotes, formatStampWithHeader or the scanner is under way
LaterIdle ==
    /\ embeddingArg = NONE /\ now = NONE /\ fullJSON = NONE
    /\ rawValue = NONE /\ stripped = NONE
    /\ versionArg = NONE /\ infoUrlArg = NONE /\ stampWithHeader = NONE
    /\ scanLines = NONE /\ scanIndex = NONE /\ scanKey = NONE /\ scanItems = NONE

\* All sequences of 1..n elements of S
SeqsUpTo(S, n) == UNION {[1..m -> S] : m \in 1..n}

MaxDocLines == 6

\* Lines of a document: a field line, the markers alone on a line, and the markers
\* with other text before or after them on the same line.
DocLines ==
    {<<"title", ":", SP, "T">>,
     <<BEGIN_MARKER>>,
     <<END_MARKER>>,
     <<"x", BEGIN_MARKER>>,
     <<END_MARKER, "x">>}

Docs == {Join(ls, <<NL>>) : ls \in SeqsUpTo(DocLines, MaxDocLines)}

---------------------------------------------------------------------------
(* The calls                                                               *)

Inputs == <<text, blockBody, fieldMap, other>>

ExtractBlock ==
    /\ pc = "input"
    /\ block' = extractBlock(text)
    /\ pc' = "extractBlock"
    /\ UNCHANGED <<Inputs, zg, result, stamp, reparsed, embText, otherText, Later>>

ParseZG ==
    /\ pc = "input"
    /\ zg' = parseZG(text)
    /\ pc' = "parseZG"
    /\ UNCHANGED <<Inputs, block, result, stamp, reparsed, embText, otherText, Later>>

InitExtract ==
    /\ pc = "input"
    /\ text \in Docs
    /\ blockBody = <<>>
    /\ fieldMap = <<>>
    /\ other = <<>>
    /\ block = NONE /\ zg = NONE /\ result = NONE /\ stamp = NONE
    /\ reparsed = NONE /\ embText = NONE /\ otherText = NONE
    /\ LaterIdle

NextExtract == ExtractBlock \/ ParseZG

SpecExtract == InitExtract /\ [][NextExtract]_vars

---------------------------------------------------------------------------
(* parseBlock on its own (SpecParse)                                       *)

MaxBodyLines == 4

\* Lines of a block body: a scalar line, a list header, a quoted and indented item,
\* an item that holds a colon (a key line when no list is open), a blank line,
\* a single-quoted scalar of a second key, a line without colon, a line without key.
BodyLines ==
    {<<"k", ":", SP, "a">>,
     <<"k", ":">>,
     <<SP, SP, "-", SP, DQ, "b", DQ>>,
     <<"-", SP, "j", ":", SP, "e">>,
     <<>>,
     <<"j", ":", SP, SQ, "d", SQ>>,
     <<"x">>,
     <<":", SP, "a">>}

Bodies == {Join(ls, <<NL>>) : ls \in SeqsUpTo(BodyLines, MaxBodyLines)}

ParseBlock ==
    /\ pc = "input"
    /\ fieldMap' = parseBlock(blockBody)
    /\ pc' = "parseBlock"
    /\ UNCHANGED <<text, blockBody, other, block, zg, result, stamp, reparsed, embText, otherText, Later>>

InitParse ==
    /\ pc = "input"
    /\ blockBody \in Bodies
    /\ text = <<>>
    /\ fieldMap = <<>>
    /\ other = <<>>
    /\ block = NONE /\ zg = NONE /\ result = NONE /\ stamp = NONE
    /\ reparsed = NONE /\ embText = NONE /\ otherText = NONE
    /\ LaterIdle

NextParse == ParseBlock

SpecParse == InitParse /\ [][NextParse]_vars

---------------------------------------------------------------------------
(* validateStamp and validateFullJSON on caller-built objects (SpecValidate) *)

\* The object literal with the given properties, those whose value is undefined left out
ObjOf(props) == SelectSeq(props, LAMBDA p : p.val # UNDEFINED)

Prop(name, v) == [key |-> K(name), val |-> v]

StampMaps ==
    {ObjOf(<<Prop("encoding", e), Prop("version", v), Prop("title", t),
             Prop("intent", i), Prop("indexes", x)>>) :
        e \in {UNDEFINED, Str(<<>>), Str(<<SP>>), Str(K("zero-gravity")), Str(K("other"))},
        v \in {UNDEFINED, Str(K("0.1")), Str(<<SP>>)},
        t \in {UNDEFINED, Str(<<>>), Str(K("T")), List(<<>>), List(<<K("a")>>)},
        i \in {UNDEFINED, NULL, Str(K("proposal"))},
        x \in {UNDEFINED, List(<<>>), List(<<K("a"), K("b")>>), Str(K("s"))}}

MaxIdLen == 2
MaxClaims == 8

\* The characters of an id: a lower case letter, the hyphen, an upper case letter, a space
IdChars == {"a", "-", "B", SP}

JsonMaps ==
    {ObjOf(<<Prop("id", d), Prop("intent", i), Prop("relevance", r),
             Prop("claims", c), Prop("stance", s)>>) :
        d \in {UNDEFINED, NULL, Str(<<>>)} \cup {Str(w) : w \in SeqsUpTo(IdChars, MaxIdLen)},
        i \in {UNDEFINED, Str(<<>>), Str(K("proposal")), Str(K("other"))},
        r \in {UNDEFINED, Str(<<SP>>), Str(K("r"))},
        c \in {UNDEFINED} \cup {List([n \in 1..m |-> K("c")]) : m \in 0..MaxClaims},
        s \in {UNDEFINED, Str(K("empirical")), Str(K("other"))}}

ValidateStamp ==
    /\ pc = "input"
    /\ result' = validateStamp(fieldMap)
    /\ pc' = "validateStamp"
    /\ UNCHANGED <<Inputs, block, zg, stamp, reparsed, embText, otherText, Later>>

ValidateFullJSON ==
    /\ pc = "input"
    /\ result' = validateFullJSON(fieldMap)
    /\ pc' = "validateFullJSON"
    /\ UNCHANGED <<Inputs, block, zg, stamp, reparsed, embText, otherText, Later>>

InitValidate ==
    /\ pc = "input"
    /\ fieldMap \in StampMaps \cup JsonMaps
    /\ text = <<>>
    /\ blockBody = <<>>
    /\ other = <<>>
    /\ block = NONE /\ zg = NONE /\ result = NONE /\ stamp = NONE
    /\ reparsed = NONE /\ embText = NONE /\ otherText = NONE
    /\ LaterIdle

NextValidate == ValidateStamp \/ ValidateFullJSON

SpecValidate == InitValidate /\ [][NextValidate]_vars

---------------------------------------------------------------------------
(* parseBlock, formatStamp and parseBlock again (SpecRoundTrip)            *)

MaxItems == 2

\* A block body is put together from one choice of lines per field; <<>> leaves
\* the field out.
EncodingChoices ==
    {<<>>,
     << <<"encoding", ":", SP, DQ, "zero-gravity", DQ>> >>,
     << <<"encoding", ":", SP, "other">> >>}

VersionChoices ==
    {<<>>,
     << <<"version", ":", SP, DQ, "0.1", DQ>> >>,
     << <<"version", ":", SP, DQ, "2", DQ>> >>}

TitleChoices ==
    {<<>>,
     << <<"title", ":", SP, DQ, "T", DQ>> >>,
     << <<"title", ":", SP, DQ, SP, "T", SP, DQ>> >>,
     << <<"title", ":", SP, DQ, DQ>> >>,
     << <<"title", ":">>, <<SP, SP, "-", SP, DQ, "a", DQ>> >>}

IntentChoices ==
    {<<>>,
     << <<"intent", ":", SP, SQ, "i", SQ>> >>}

\* The item lines `  - "a"`, `  - b`, ...
ItemChoices == <<"a", "b", "c", "d", "e">>
IndexItems(m) ==
    [n \in 1..m |-> IF n % 2 = 1 THEN <<SP, SP, "-", SP, DQ, ItemChoices[n], DQ>>
                    ELSE <<SP, SP, "-", SP, ItemChoices[n]>>]

IndexesChoices ==
    {<<>>,
     << <<"indexes", ":", SP, "s">> >>}
    \cup {<< <<"indexes", ":">> >> \o IndexItems(m) : m \in 1..MaxItems}

ExtraChoices ==
    {<<>>,
     << <<"k", ":", SP, "v">> >>}

StampBodies ==
    {Join(e \o v \o t \o i \o x \o k, <<NL>>) :
        e \in EncodingChoices, v \in VersionChoices, t \in TitleChoices,
        i \in IntentChoices, x \in IndexesChoices, k \in ExtraChoices}

\* formatStamp(fields) with the default version
FormatStamp ==
    /\ pc = "parseBlock"
    /\ stamp' = formatStamp(fieldMap, DEFAULT_VERSION)
    /\ pc' = "formatStamp"
    /\ UNCHANGED <<Inputs, block, zg, result, reparsed, embText, otherText, Later>>

\* parseBlock(extractBlock(stamp).body)
Reparse ==
    /\ pc = "formatStamp"
    /\ extractBlock(stamp) # NULL
    /\ reparsed' = parseBlock(extractBlock(stamp).body)
    /\ pc' = "reparse"
    /\ UNCHANGED <<Inputs, block, zg, result, stamp, embText, otherText, Later>>

InitRoundTrip ==
    /\ pc = "input"
    /\ blockBody \in StampBodies
    /\ text = <<>>
    /\ fieldMap = <<>>
    /\ other = <<>>
    /\ block = NONE /\ zg = NONE /\ result = NONE /\ stamp = NONE
    /\ reparsed = NONE /\ embText = NONE /\ otherText = NONE
    /\ LaterIdle

NextRoundTrip == ParseBlock \/ FormatStamp \/ Reparse

SpecRoundTrip == InitRoundTrip /\ [][NextRoundTrip]_vars

---------------------------------------------------------------------------
(* fieldsToEmbeddingText on two objects with the same properties (SpecEmbed) *)

\* The arrays of 0..MaxItems strings made of the given atoms
Arrays(atoms) == {List([n \in 1..m |-> K(atoms[n])]) : m \in 0..MaxItems}

EmbedMaps ==
    {ObjOf(<<Prop("id", d), Prop("title", t), Prop("intent", i), Prop("relevance", r),
             Prop("indexes", x), Prop("claims", c), Prop("tags", g), Prop("relations", l)>>) :
        d \in {UNDEFINED, Str(K("x"))},
        t \in {UNDEFINED, Str(<<>>), Str(K("T"))},
        i \in {UNDEFINED, Str(K("proposal"))},
        r \in {UNDEFINED, Str(K("r"))},
        x \in {UNDEFINED, Str(K("s"))} \cup Arrays(ItemChoices),
        c \in {UNDEFINED, List(<<K("c1"), K("c2"), K("c3")>>)},
        g \in {UNDEFINED, List(<<K("t1"), K("t2")>>)},
        l \in {UNDEFINED, List(<<K("r1")>>)}}

Reverse(q) == [n \in 1..Len(q) |-> q[Len(q) + 1 - n]]
Rotate(q, by) == SubSeq(q, by + 1, Len(q)) \o SubSeq(q, 1, by)

\* The same properties inserted in another order, with or without the id
Reorderings(obj) ==
    LET orders(q) == {Reverse(q)} \cup {Rotate(q, by) : by \in 0..(Len(q) - 1)}
    IN  orders(obj) \cup orders(SelectSeq(obj, LAMBDA p : p.key # K("id")))

FieldsToEmbeddingText ==
    /\ pc = "input"
    /\ embText' = fieldsToEmbeddingText(fieldMap)
    /\ otherText' = fieldsToEmbeddingText(other)
    /\ pc' = "fieldsToEmbeddingText"
    /\ UNCHANGED <<Inputs, block, zg, result, stamp, reparsed, Later>>

InitEmbed ==
    /\ pc = "input"
    /\ fieldMap \in EmbedMaps
    /\ other \in Reorderings(fieldMap)
    /\ text = <<>>
    /\ blockBody = <<>>
    /\ block = NONE /\ zg = NONE /\ result = NONE /\ stamp = NONE
    /\ reparsed = NONE /\ embText = NONE /\ otherText = NONE
    /\ LaterIdle

NextEmbed == FieldsToEmbeddingText

SpecEmbed == InitEmbed /\ [][NextEmbed]_vars

---------------------------------------------------------------------------
(* Properties of extractBlock and parseZG (SpecExtract)                    *)

Min(S) == CHOOSE n \in S : \A m \in S : n <= m

\* The positions of the markers in a text
BeginAt(t) == {n \in 1..Len(t) : t[n] = BEGIN_MARKER}
EndAt(t) == {n \in 1..Len(t) : t[n] = END_MARKER}

\* t holds the BEGIN marker and no END marker after it
BeginWithoutEnd(t) ==
    /\ BeginAt(t) # {}
    /\ \A e \in EndAt(t) : e < Min(BeginAt(t))

\* C3: for every text that holds the BEGIN marker but no END marker after it,
\* extractBlock returns null (no partial block), and so does parseZG.
C3_UnclosedIsAbsent ==
    BeginWithoutEnd(text) =>
        /\ pc = "extractBlock" => block = NULL
        /\ pc = "parseZG" => zg = NULL

\* C3's case: a BEGIN marker line followed by field lines and never closed, given to
\* both functions.
C3_Witness ==
    /\ pc = "extractBlock"
    /\ BeginWithoutEnd(text)
    /\ \E s \in BeginAt(text) : s + 2 <= Len(text) /\ text[s + 1] = NL
    /\ block = NULL

\* The lines of a text that are exactly a marker ("marker lines"), by line number
BeginLines(t) == {n \in 1..Len(Split(t)) : Split(t)[n] = <<BEGIN_MARKER>>}
EndLines(t) == {n \in 1..Len(Split(t)) : Split(t)[n] = <<END_MARKER>>}

\* A complete delimited block: a BEGIN marker line and the first END marker line after it
BlockLines(t) ==
    {be \in BeginLines(t) \X EndLines(t) :
        /\ be[1] < be[2]
        /\ \A e \in EndLines(t) : be[1] < e => be[2] <= e}

\* t holds two or more complete blocks, one after the other
TwoBlocks(t) ==
    \E first \in BlockLines(t), second \in BlockLines(t) : first[2] < second[1]

\* The block the specification describes: from the earliest BEGIN marker line to the
\* first END marker line after it, with the lines strictly between them as body.
FirstBlock(t) ==
    LET b == Min(BeginLines(t))
        e == Min({n \in EndLines(t) : n > b})
    IN  [raw |-> Join(SubSeq(Split(t), b, e), <<NL>>),
         body |-> Join(SubSeq(Split(t), b + 1, e - 1), <<NL>>)]

\* C4: for every text that holds two or more complete blocks, extractBlock returns
\* only the first one: raw runs from the earliest BEGIN marker line to the first END
\* marker line after it and body is the text strictly between these two lines.
C4_FirstBlockOnly ==
    (pc = "extractBlock" /\ TwoBlocks(text)) => block = FirstBlock(text)

---------------------------------------------------------------------------
(* Properties of parseBlock (SpecParse)                                    *)
(* The body's lines are classified by their shape alone, and the expected  *)
(* field map is stated from the classification.                            *)

BodyOf == Split(blockBody)

\* `- item`: after any indentation, a hyphen and a space
IsItemShape(l) == StartsWith(Trim(l), <<"-", SP>>)

\* `key: ...`: a colon with something other than white space before the first one
IsKeyShape(l) ==
    /\ IndexOf(Trim(l), ":") # -1
    /\ Trim(Slice(Trim(l), 0, IndexOf(Trim(l), ":"))) # <<>>

KeyOf(l) == Trim(Slice(Trim(l), 0, IndexOf(Trim(l), ":")))
RestOf(l) == Trim(Slice(Trim(l), IndexOf(Trim(l), ":") + 1, Len(Trim(l))))

\* `key:` with nothing after the colon
IsHeaderShape(l) == IsKeyShape(l) /\ RestOf(l) = <<>>

\* Line n belongs to a list: it is an item, and the line before it is a header or
\* belongs to a list itself.
RECURSIVE InList(_, _)
InList(lines, n) ==
    /\ n > 1
    /\ IsItemShape(lines[n])
    /\ (IsHeaderShape(lines[n - 1]) \/ InList(lines, n - 1))

\* Line n is a key line: a `key: ...` line that is not an item of a list
IsKeyLine(lines, n) == IsKeyShape(lines[n]) /\ ~InList(lines, n)

\* Line n is a header line followed by no item
IsEmptyHeader(lines, n) ==
    /\ IsKeyLine(lines, n)
    /\ IsHeaderShape(lines[n])
    /\ (n = Len(lines) \/ ~IsItemShape(lines[n + 1]))

\* Line n is a key line that gives its key a value
GivesValue(lines, n) == IsKeyLine(lines, n) /\ ~IsEmptyHeader(lines, n)

\* The items of the maximal run of item lines from line n on
RECURSIVE ItemRun(_, _)
ItemRun(lines, n) ==
    IF n <= Len(lines) /\ IsItemShape(lines[n])
    THEN <<stripQuotes(Slice(Trim(lines[n]), 2, Len(Trim(lines[n]))))>> \o ItemRun(lines, n + 1)
    ELSE <<>>

\* The value key line n gives: a scalar, or the list of the items that follow it
ValueGiven(lines, n) ==
    IF IsHeaderShape(lines[n]) THEN List(ItemRun(lines, n + 1))
    ELSE Str(stripQuotes(RestOf(lines[n])))

\* What the shape of each line says: whether it is a key line, its key, whether it
\* gives the key a value and, if so, the value
Reading(lines) ==
    [n \in 1..Len(lines) |->
        [isKeyLine |-> IsKeyLine(lines, n),
         isEmptyHeader |-> IsEmptyHeader(lines, n),
         givesValue |-> GivesValue(lines, n),
         key |-> KeyOf(lines[n]),
         value |-> IF GivesValue(lines, n) THEN ValueGiven(lines, n) ELSE UNDEFINED]]

KeyLinesOf(rd, k) == {n \in DOMAIN rd : rd[n].isKeyLine /\ rd[n].key = k}
ValueLinesOf(rd, k) == {n \in DOMAIN rd : rd[n].givesValue /\ rd[n].key = k}
Max(S) == CHOOSE n \in S : \A m \in S : m <= n

\* The keys that are given a value, in the order of the first line that gives one
KeysByFirstValue(rd) ==
    LET firsts == SelectSeq([n \in DOMAIN rd |-> n],
                            LAMBDA n : rd[n].givesValue /\ n = Min(ValueLinesOf(rd, rd[n].key)))
    IN  [i \in 1..Len(firsts) |-> rd[firsts[i]].key]

EntriesOf(obj, k) == {n \in 1..Len(obj) : obj[n].key = k}

\* C9 as stated: every list in the returned map has an item, and the key of a header
\* line followed by no item is not in the returned map.
C9_EmptyHeaderKeyAbsent ==
    pc = "parseBlock" =>
        LET rd == Reading(BodyOf)
        IN  /\ \A n \in 1..Len(fieldMap) :
                   IsArray(fieldMap[n].val) => Len(fieldMap[n].val.val) >= 1
            /\ \A n \in DOMAIN rd : rd[n].isEmptyHeader => ~HasKey(fieldMap, rd[n].key)

\* C9, amended: every list in the returned map has an item, and a header line
\* followed by no item stores nothing: its key is in the returned map only when
\* another key line of the same key gives it a value.
C9_EmptyHeaderStoresNothing ==
    pc = "parseBlock" =>
        LET rd == Reading(BodyOf)
        IN  /\ \A n \in 1..Len(fieldMap) :
                   IsArray(fieldMap[n].val) => Len(fieldMap[n].val.val) >= 1
            /\ \A n \in DOMAIN rd :
                   rd[n].isEmptyHeader =>
                       (HasKey(fieldMap, rd[n].key) <=> ValueLinesOf(rd, rd[n].key) # {})

\* C9's case: a header followed by no item whose key is dropped from a map that
\* holds another key.
C9_Witness ==
    /\ pc = "parseBlock"
    /\ \E n \in 1..Len(BodyOf) :
           IsEmptyHeader(BodyOf, n) /\ ~HasKey(fieldMap, KeyOf(BodyOf[n]))
    /\ Len(fieldMap) > 0

---------------------------------------------------------------------------
(* Properties of validateStamp and validateFullJSON (SpecValidate)         *)

Validated == pc \in {"validateStamp", "validateFullJSON"}

\* C5: for every field map, validateStamp and validateFullJSON return a
\* { valid, errors } record (never null) in which valid is true exactly when
\* errors is empty.
C5_ValidIffNoErrors ==
    Validated =>
        /\ result # NULL
        /\ DOMAIN result = {"valid", "errors"}
        /\ result.valid \in BOOLEAN
        /\ result.errors \in Seq(Seq(STRING))
        /\ result.valid <=> result.errors = <<>>

\* C5's case: validateFullJSON has returned an invalid result with several errors.
C5_Witness ==
    /\ pc = "validateFullJSON"
    /\ result.valid = FALSE
    /\ Len(result.errors) >= 2

\* A value is present and is neither the empty string nor the empty list
NonEmpty(v) == v # UNDEFINED /\ v # NULL /\ v.val # <<>>

\* A value is present and is a string with a character that is not white space,
\* or a list with an item
NonBlank(v) ==
    \/ IsString(v) /\ \E n \in 1..Len(v.val) : v.val[n] \notin WhiteSpace
    \/ IsArray(v) /\ Len(v.val) >= 1

ErrorNames(error, name) == \E n \in 1..Len(error) : error[n] = name

\* C6 as stated: with encoding "zero-gravity", version, title and intent non-empty
\* and no indexes key, validateStamp returns valid = false and exactly one error,
\* which names indexes.
C6_OnlyIndexesMissing ==
    (/\ pc = "validateStamp"
     /\ Get(fieldMap, K("encoding")) = Str(K("zero-gravity"))
     /\ NonEmpty(Get(fieldMap, K("version")))
     /\ NonEmpty(Get(fieldMap, K("title")))
     /\ NonEmpty(Get(fieldMap, K("intent")))
     /\ ~HasKey(fieldMap, K("indexes")))
    => /\ result.valid = FALSE
       /\ Len(result.errors) = 1
       /\ ErrorNames(result.errors[1], "indexes")

\* C6, amended: the same with version, title and intent not blank (a string of
\* white space alone counts as empty).
C6_OnlyIndexesMissingNonBlank ==
    (/\ pc = "validateStamp"
     /\ Get(fieldMap, K("encoding")) = Str(K("zero-gravity"))
     /\ NonBlank(Get(fieldMap, K("version")))
     /\ NonBlank(Get(fieldMap, K("title")))
     /\ NonBlank(Get(fieldMap, K("intent")))
     /\ ~HasKey(fieldMap, K("indexes")))
    => /\ result.valid = FALSE
       /\ Len(result.errors) = 1
       /\ ErrorNames(result.errors[1], "indexes")

\* C6's case: a stamp complete but for indexes has been validated.
C6_Witness ==
    /\ pc = "validateStamp"
    /\ Get(fieldMap, K("encoding")) = Str(K("zero-gravity"))
    /\ Get(fieldMap, K("version")) = Str(K("0.1"))
    /\ Get(fieldMap, K("title")) = Str(K("T"))
    /\ Get(fieldMap, K("intent")) = Str(K("proposal"))
    /\ ~HasKey(fieldMap, K("indexes"))
    /\ result.errors = << <<"Missing required stamp field: ", "indexes">> >>

TooFew(errors) ==
    \E n \in 1..Len(errors) : errors[n][1] = "claims should have at least 3 items (found "
TooMany(errors) ==
    \E n \in 1..Len(errors) : errors[n][1] = "claims should have at most 7 items (found "

\* C7: when claims is an array of length n, validateFullJSON reports the
\* "at least 3 items" error exactly when n < 3, the "at most 7 items" error exactly
\* when n > 7, and never both.
C7_ClaimsLength ==
    (pc = "validateFullJSON" /\ IsArray(Get(fieldMap, K("claims")))) =>
        LET n == Len(Get(fieldMap, K("claims")).val)
        IN  /\ TooFew(result.errors) <=> n < 3
            /\ TooMany(result.errors) <=> n > 7
            /\ ~(TooFew(result.errors) /\ TooMany(result.errors))

\* C7's case: eight claims have been validated and found too many.
C7_Witness ==
    /\ pc = "validateFullJSON"
    /\ IsArray(Get(fieldMap, K("claims")))
    /\ Len(Get(fieldMap, K("claims")).val) = 8
    /\ TooMany(result.errors)

\* intent, claims and stance satisfy their rules
OthersSatisfied(json) ==
    /\ Includes(VALID_INTENTS, Get(json, K("intent")))
    /\ IsArray(Get(json, K("claims")))
    /\ Len(Get(json, K("claims")).val) \in 3..7
    /\ (~HasKey(json, K("stance")) \/ Includes(VALID_STANCES, Get(json, K("stance"))))

\* s is not made of the characters a-z, 0-9 and hyphen alone
OffPattern(s) == \E n \in 1..Len(s) : s[n] \notin IdAtoms

IsIdError(error) == error[1] = "id must be lowercase alphanumeric with hyphens: \""

\* C8 as stated: when intent, relevance, claims and stance satisfy their rules and
\* id is a non-empty string that is not made of a-z, 0-9 and hyphen alone,
\* validateFullJSON returns valid = false with exactly the id-pattern error.
C8_OnlyIdError ==
    (/\ pc = "validateFullJSON"
     /\ OthersSatisfied(fieldMap)
     /\ NonEmpty(Get(fieldMap, K("relevance")))
     /\ IsString(Get(fieldMap, K("id")))
     /\ NonEmpty(Get(fieldMap, K("id")))
     /\ OffPattern(Get(fieldMap, K("id")).val))
    => /\ result.valid = FALSE
       /\ Len(result.errors) = 1
       /\ IsIdError(result.errors[1])

\* C8, amended: the same with relevance and id not blank (a string of white space
\* alone is reported as empty, for id beside the id-pattern error).
C8_OnlyIdErrorNonBlank ==
    (/\ pc = "validateFullJSON"
     /\ OthersSatisfied(fieldMap)
     /\ NonBlank(Get(fieldMap, K("relevance")))
     /\ IsString(Get(fieldMap, K("id")))
     /\ NonBlank(Get(fieldMap, K("id")))
     /\ OffPattern(Get(fieldMap, K("id")).val))
    => /\ result.valid = FALSE
       /\ Len(result.errors) = 1
       /\ IsIdError(result.errors[1])

\* C8's case: an id with an upper case letter beside a lower case one, in a record
\* that is otherwise in order, has been validated.
C8_Witness ==
    /\ pc = "validateFullJSON"
    /\ OthersSatisfied(fieldMap)
    /\ NonBlank(Get(fieldMap, K("relevance")))
    /\ Get(fieldMap, K("id")) = Str(<<"a", "B">>)
    /\ Len(result.errors) = 1
    /\ IsIdError(result.errors[1])

---------------------------------------------------------------------------
(* Round trip (SpecRoundTrip)                                              *)

KeySet(obj) == {obj[n].key : n \in 1..Len(obj)}

\* Field-equivalent: the same keys, with the same scalar or the same list for each
Equivalent(f, g) ==
    /\ KeySet(f) = KeySet(g)
    /\ \A k \in KeySet(f) : Get(f, k) = Get(g, k)

\* C1 as stated: for every field map F that parseBlock returns, parseBlock of the
\* body of the block that formatStamp(F) produces is field-equivalent to F.
C1_RoundTrip ==
    pc = "reparse" => Equivalent(reparsed, fieldMap)

\* F is a stamp as formatStamp writes it: no key beside the five stamp keys,
\* encoding "zero-gravity", version "0.1", title and intent each absent or a
\* non-empty scalar, indexes absent or a list.
IsDefaultStamp(f) ==
    /\ KeySet(f) \subseteq {STAMP_REQUIRED_FIELDS[n] : n \in 1..Len(STAMP_REQUIRED_FIELDS)}
    /\ Get(f, K("encoding")) = Str(K("zero-gravity"))
    /\ Get(f, K("version")) = Str(K("0.1"))
    /\ \A k \in {K("title"), K("intent")} :
           HasKey(f, k) => (IsString(Get(f, k)) /\ Get(f, k).val # <<>>)
    /\ HasKey(f, K("indexes")) => IsArray(Get(f, K("indexes")))

\* C1, amended: the round trip holds for the field maps F returned by parseBlock
\* that are stamps as formatStamp writes them; the block formatStamp produces is
\* always found by extractBlock.
C1_RoundTripOfStamps ==
    /\ pc = "formatStamp" => extractBlock(stamp) # NULL
    /\ (pc = "reparse" /\ IsDefaultStamp(fieldMap)) => Equivalent(reparsed, fieldMap)

\* C1's case: a full stamp, with a title that keeps its outer spaces and two
\* indexes, has been parsed, formatted and parsed again.
C1_Witness ==
    /\ pc = "reparse"
    /\ IsDefaultStamp(fieldMap)
    /\ Get(fieldMap, K("title")) = Str(<<SP, "T", SP>>)
    /\ Get(fieldMap, K("intent")) = Str(K("i"))
    /\ Get(fieldMap, K("indexes")) = List(<<K("a"), K("b")>>)
    /\ Equivalent(reparsed, fieldMap)

---------------------------------------------------------------------------
(* Determinism of the embedding text (SpecEmbed)                           *)

\* The two objects hold the same value, or none, under each key the text is made of
SameEmbeddingFields(f, g) ==
    \A n \in 1..Len(EMBEDDING_KEYS) :
        /\ HasKey(f, EMBEDDING_KEYS[n]) <=> HasKey(g, EMBEDDING_KEYS[n])
        /\ HasKey(f, EMBEDDING_KEYS[n]) => Get(f, EMBEDDING_KEYS[n]) = Get(g, EMBEDDING_KEYS[n])

\* C2: two field maps that hold the same values under title, intent, relevance,
\* indexes, claims, tags and relations, in whatever order the keys were inserted,
\* get the same text from fieldsToEmbeddingText.
C2_SameFieldsSameText ==
    (pc = "fieldsToEmbeddingText" /\ SameEmbeddingFields(fieldMap, other)) =>
        embText = otherText

\* C2's case: two objects with the same four or more properties in different order
\* have been rendered to a text of several lines.
C2_Witness ==
    /\ pc = "fieldsToEmbeddingText"
    /\ SameEmbeddingFields(fieldMap, other)
    /\ Len(fieldMap) >= 4
    /\ Keys(fieldMap) # Keys(other)
    /\ \E n \in 1..Len(embText) : embText[n] = NL
    /\ embText = otherText

---------------------------------------------------------------------------
(* buildFullJSON (SpecBuild)                                               *)

\* A nested object as a value
Obj(props) == [kind |-> "object", val |-> props]

\* { encoding: 'zero-gravity', version: '0.1', ... }
ENVELOPE ==
    <<[key |-> K("encoding"), val |-> Str(K("zero-gravity"))],
      [key |-> K("version"), val |-> Str(K("0.1"))]>>

\* A mutation of the spread: a property the literal already holds is kept.
RECURSIVE SpreadKeepsExisting(_, _)
SpreadKeepsExisting(obj, fields) ==
    IF fields = <<>> THEN obj
    ELSE SpreadKeepsExisting(IF HasKey(obj, Head(fields).key) THEN obj
                             ELSE Set(obj, Head(fields).key, Head(fields).val),
                             Tail(fields))

\* ...fields: every own property of fields is assigned to the literal, in order
RECURSIVE Spread(_, _)
Spread(obj, fields) ==
    IF fields = <<>> THEN obj
    ELSE Spread(Set(obj, Head(fields).key, Head(fields).val), Tail(fields))

\* buildFullJSON({ fields, embedding = null }), instant being what
\* new Date().toISOString() returns
buildFullJSON(fields, embeddingOption, instant) ==
    LET embedding == IF embeddingOption = UNDEFINED THEN NULL ELSE embeddingOption
        literal == Set(Spread(ENVELOPE, fields), K("created_at"), Str(instant))
    IN  IF Truthy(embedding) THEN Set(literal, K("embedding"), embedding) ELSE literal

\* Instants the clock can show at the call, and one it showed earlier
Instants == {K("t1"), K("t2")}
EARLIER == K("t0")

\* Embedding descriptors: one from this run, one read from an earlier record
DESCRIPTOR == Obj(<<Prop("model", Str(K("m"))), Prop("input_hash", Str(K("h1")))>>)
OLD_DESCRIPTOR == Obj(<<Prop("model", Str(K("m"))), Prop("input_hash", Str(K("h0")))>>)

\* Generated fields, or the fields of a record read back from a .zg.json file
BuildMaps ==
    {ObjOf(<<Prop("id", d), Prop("encoding", e), Prop("version", v), Prop("title", t),
             Prop("embedding", m), Prop("created_at", c)>>) :
        d \in {UNDEFINED, Str(K("x"))},
        e \in {UNDEFINED, NULL, Str(K("zero-gravity")), Str(K("other"))},
        v \in {UNDEFINED, Str(K("0.1")), Str(K("2"))},
        t \in {UNDEFINED, Str(K("T"))},
        m \in {UNDEFINED, OLD_DESCRIPTOR},
        c \in {UNDEFINED, Str(EARLIER)}}

BuildFullJSON ==
    /\ pc = "input"
    /\ \E instant \in Instants :
          /\ now' = instant
          /\ fullJSON' = buildFullJSON(fieldMap, embeddingArg, instant)
    /\ pc' = "buildFullJSON"
    /\ UNCHANGED <<Inputs, block, zg, result, stamp, reparsed, embText, otherText,
                   embeddingArg, rawValue, stripped, versionArg, infoUrlArg,
                   stampWithHeader, scanLines, scanIndex, scanKey, scanItems>>

InitBuild ==
    /\ pc = "input"
    /\ \E f \in BuildMaps : fieldMap \in {f, Reverse(f)}
    /\ embeddingArg \in {UNDEFINED, NULL, DESCRIPTOR}
    /\ text = <<>> /\ blockBody = <<>> /\ other = <<>>
    /\ block = NONE /\ zg = NONE /\ result = NONE /\ stamp = NONE
    /\ reparsed = NONE /\ embText = NONE /\ otherText = NONE
    /\ now = NONE /\ fullJSON = NONE
    /\ rawValue = NONE /\ stripped = NONE
    /\ versionArg = NONE /\ infoUrlArg = NONE /\ stampWithHeader = NONE
    /\ scanLines = NONE /\ scanIndex = NONE /\ scanKey = NONE /\ scanItems = NONE

NextBuild == BuildFullJSON

SpecBuild == InitBuild /\ [][NextBuild]_vars

---------------------------------------------------------------------------
(* Properties of buildFullJSON (SpecBuild)                                 *)

Built == pc = "buildFullJSON"

\* A descriptor was supplied
Supplied(embeddingOption) == embeddingOption \notin {UNDEFINED, NULL}

\* encoding and version are there, the envelope's when the caller gives none
EnvelopeDefaults(fields, built) ==
    /\ HasKey(built, K("encoding")) /\ HasKey(built, K("version"))
    /\ (~HasKey(fields, K("encoding")) => Get(built, K("encoding")) = Str(K("zero-gravity")))
    /\ (~HasKey(fields, K("version")) => Get(built, K("version")) = Str(K("0.1")))

\* C11, as stated: every key of the caller carries the caller's value, encoding and
\* version are present and default to the envelope, embedding is the supplied
\* descriptor when one is supplied, and created_at is the instant of assembly.
C11_CallerValuesWin ==
    Built =>
        /\ \A n \in 1..Len(fieldMap) : Get(fullJSON, fieldMap[n].key) = fieldMap[n].val
        /\ EnvelopeDefaults(fieldMap, fullJSON)
        /\ (Supplied(embeddingArg) => Get(fullJSON, K("embedding")) = embeddingArg)
        /\ Get(fullJSON, K("created_at")) = Str(now)

\* C11, amended: every key of the caller other than created_at, and other than
\* embedding when a descriptor is supplied, carries the caller's value; encoding and
\* version are present and default to the envelope; embedding is the supplied
\* descriptor when one is supplied and the caller's own (if any) otherwise;
\* created_at is the instant of assembly; the record holds no other key and
\* each key once.
C11_CallerValuesWinExceptStamped ==
    Built =>
        /\ \A n \in 1..Len(fieldMap) :
              \/ fieldMap[n].key = K("created_at")
              \/ fieldMap[n].key = K("embedding") /\ Supplied(embeddingArg)
              \/ Get(fullJSON, fieldMap[n].key) = fieldMap[n].val
        /\ EnvelopeDefaults(fieldMap, fullJSON)
        /\ (Supplied(embeddingArg) => Get(fullJSON, K("embedding")) = embeddingArg)
        /\ (~Supplied(embeddingArg) => Get(fullJSON, K("embedding")) = Get(fieldMap, K("embedding")))
        /\ Get(fullJSON, K("created_at")) = Str(now)
        /\ KeySet(fullJSON) =
              KeySet(fieldMap) \cup {K("encoding"), K("version"), K("created_at")}
              \cup (IF Supplied(embeddingArg) THEN {K("embedding")} ELSE {})
        /\ Cardinality(KeySet(fullJSON)) = Len(fullJSON)

\* A record built from fields that bring their own encoding, version, embedding and
\* created_at, with a new descriptor supplied
C11_Witness ==
    /\ Built
    /\ Get(fieldMap, K("encoding")) = Str(K("other"))
    /\ Get(fieldMap, K("version")) = Str(K("2"))
    /\ Get(fieldMap, K("created_at")) = Str(EARLIER)
    /\ Get(fieldMap, K("embedding")) = OLD_DESCRIPTOR
    /\ embeddingArg = DESCRIPTOR
    /\ Get(fullJSON, K("encoding")) = Str(K("other"))
    /\ Get(fullJSON, K("embedding")) = DESCRIPTOR
    /\ Get(fullJSON, K("created_at")) = Str(now)

---------------------------------------------------------------------------
(* Properties of fieldsToEmbeddingText: the lines (SpecEmbed)              *)

Embedded == pc = "fieldsToEmbeddingText"

\* The lines of an embedding text, none for the empty text
LinesOf(t) == IF t = <<>> THEN <<>> ELSE Split(t)

SCALAR_FIELDS == {K("title"), K("intent"), K("relevance")}
FIELD_ORDER ==
    <<K("title"), K("intent"), K("relevance"), K("indexes"), K("claims"), K("tags"), K("relations")>>

LabelOf(key) ==
    CASE key = K("title") -> "Title: "
      [] key = K("intent") -> "Intent: "
      [] key = K("relevance") -> "Relevance: "
      [] key = K("indexes") -> "Indexes: "
      [] key = K("claims") -> "Claims: "
      [] key = K("tags") -> "Tags: "
      [] key = K("relations") -> "Relations: "

SeparatorOf(key) == IF key \in {K("indexes"), K("claims")} THEN "; " ELSE ", "

\* The labelled line of a field: the label, then the scalar or the joined items
LabelledLine(key, v) ==
    <<LabelOf(key)>> \o (IF key \notin SCALAR_FIELDS /\ IsArray(v)
                         THEN Join(v.val, <<SeparatorOf(key)>>)
                         ELSE ToStr(v))

\* One labelled line for each of the given keys, in the given order
LabelledLines(fields, keys) == [n \in 1..Len(keys) |-> LabelledLine(keys[n], Get(fields, keys[n]))]

\* C12, as stated: the text is one labelled line for each of the seven fields that
\* is present in the map, in the fixed order, and no line for an absent field.
C12_LinePerPresentField ==
    Embedded =>
        /\ LinesOf(embText) =
              LabelledLines(fieldMap, SelectSeq(FIELD_ORDER, LAMBDA k : HasKey(fieldMap, k)))
        /\ LinesOf(otherText) =
              LabelledLines(other, SelectSeq(FIELD_ORDER, LAMBDA k : HasKey(other, k)))

\* title, intent and relevance give a line when they are not empty, the four list
\* fields when they are lists
GivesLine(fields, key) ==
    IF key \in SCALAR_FIELDS THEN Truthy(Get(fields, key)) ELSE IsArray(Get(fields, key))

\* C12, amended: the text is one labelled line for each of title, intent, relevance
\* that is present and not the empty string and for each of indexes, claims, tags,
\* relations that is a list (an empty list included), no line for any other field,
\* the lines in the fixed order whatever the key order of the map; indexes and
\* claims items are joined with "; ", tags and relations items with ", ".
C12_LinePerUsableField ==
    Embedded =>
        /\ LinesOf(embText) =
              LabelledLines(fieldMap, SelectSeq(FIELD_ORDER, LAMBDA k : GivesLine(fieldMap, k)))
        /\ LinesOf(otherText) =
              LabelledLines(other, SelectSeq(FIELD_ORDER, LAMBDA k : GivesLine(other, k)))

\* All seven lines are written for a map whose keys stand in another order, the
\* indexes line holding two joined items
C12_Witness ==
    /\ Embedded
    /\ Len(LinesOf(otherText)) = 7
    /\ Keys(other)[1] # K("title")
    /\ IsArray(Get(other, K("indexes"))) /\ Len(Get(other, K("indexes")).val) = 2
    /\ LinesOf(otherText)[4] = <<"Indexes: ", "a", "; ", "b">>
    /\ LinesOf(otherText)[6] = <<"Tags: ", "t1", ", ", "t2">>

---------------------------------------------------------------------------
(* Properties of validateStamp: the errors (SpecValidate)                  *)

FIVE_KEYS == {K("encoding"), K("version"), K("title"), K("intent"), K("indexes")}

\* The positions of the required-field errors that name the field
RequiredErrorsOf(errors, field) ==
    {n \in 1..Len(errors) :
        /\ errors[n][1] \in {"Missing required stamp field: ", "Required stamp field is empty: "}
        /\ Tail(errors[n]) = field}

\* The positions of the "Unexpected encoding" errors
EncodingErrorsOf(errors) == {n \in 1..Len(errors) : errors[n][1] = "Unexpected encoding: \""}

\* Every error is a required-field error of one of the five keys or the encoding error
OnlyStampErrors(errors) ==
    UNION {RequiredErrorsOf(errors, f) : f \in FIVE_KEYS} \cup EncodingErrorsOf(errors)
        = 1..Len(errors)

\* C13, as stated: one error for each of the five keys that is absent or empty
\* (empty string or empty list), the "Unexpected encoding" error exactly when
\* encoding is present (an empty encoding counting as missing) and is not
\* "zero-gravity", added to the others, and valid exactly when the five keys are
\* non-empty and encoding is "zero-gravity".
C13_StampErrors ==
    pc = "validateStamp" =>
        /\ \A f \in FIVE_KEYS :
              Cardinality(RequiredErrorsOf(result.errors, f))
                  = IF NonEmpty(Get(fieldMap, f)) THEN 0 ELSE 1
        /\ Cardinality(EncodingErrorsOf(result.errors))
              = IF NonEmpty(Get(fieldMap, K("encoding")))
                   /\ Get(fieldMap, K("encoding")) # Str(K("zero-gravity"))
                THEN 1 ELSE 0
        /\ OnlyStampErrors(result.errors)
        /\ result.valid = (/\ \A f \in FIVE_KEYS : NonEmpty(Get(fieldMap, f))
                           /\ Get(fieldMap, K("encoding")) = Str(K("zero-gravity")))

\* C13, amended: one error for each of the five keys that is absent or blank (the
\* empty list, or a string that is empty or white space alone), the "Unexpected
\* encoding" error exactly when encoding is present, is not the empty string and
\* is not "zero-gravity", added to the others and after them, and valid exactly
\* when the five keys are not blank and encoding is "zero-gravity".
C13_StampErrorsBlank ==
    pc = "validateStamp" =>
        /\ \A f \in FIVE_KEYS :
              Cardinality(RequiredErrorsOf(result.errors, f))
                  = IF NonBlank(Get(fieldMap, f)) THEN 0 ELSE 1
        /\ Cardinality(EncodingErrorsOf(result.errors))
              = IF NonEmpty(Get(fieldMap, K("encoding")))
                   /\ Get(fieldMap, K("encoding")) # Str(K("zero-gravity"))
                THEN 1 ELSE 0
        /\ EncodingErrorsOf(result.errors) \subseteq {Len(result.errors)}
        /\ OnlyStampErrors(result.errors)
        /\ result.valid = (/\ \A f \in FIVE_KEYS : NonBlank(Get(fieldMap, f))
                           /\ Get(fieldMap, K("encoding")) = Str(K("zero-gravity")))

\* A stamp with another encoding and two other keys missing or empty has been
\* validated: two required-field errors, then the encoding error
C13_Witness ==
    /\ pc = "validateStamp"
    /\ Get(fieldMap, K("encoding")) = Str(K("other"))
    /\ ~HasKey(fieldMap, K("title"))
    /\ Get(fieldMap, K("indexes")) = List(<<>>)
    /\ Len(result.errors) = 3
    /\ result.errors[1] = <<"Missing required stamp field: ", "title">>
    /\ result.errors[2] = <<"Required stamp field is empty: ", "indexes">>
    /\ EncodingErrorsOf(result.errors) = {3}

---------------------------------------------------------------------------
(* stripQuotes on its own (SpecStrip)                                      *)

MaxValueLen == 4

\* Value texts: quotes of both kinds, a blank and an ordinary character
ValueAtoms == {DQ, SQ, SP, "a"}
Values == {<<>>} \cup SeqsUpTo(ValueAtoms, MaxValueLen)

StripQuotes ==
    /\ pc = "input"
    /\ stripped' = stripQuotes(rawValue)
    /\ pc' = "stripQuotes"
    /\ UNCHANGED <<Inputs, block, zg, result, stamp, reparsed, embText, otherText,
                   embeddingArg, now, fullJSON, rawValue, versionArg, infoUrlArg,
                   stampWithHeader, scanLines, scanIndex, scanKey, scanItems>>

InitStrip ==
    /\ pc = "input"
    /\ rawValue \in Values
    /\ text = <<>> /\ blockBody = <<>> /\ fieldMap = <<>> /\ other = <<>>
    /\ block = NONE /\ zg = NONE /\ result = NONE /\ stamp = NONE
    /\ reparsed = NONE /\ embText = NONE /\ otherText = NONE
    /\ embeddingArg = NONE /\ now = NONE /\ fullJSON = NONE
    /\ stripped = NONE
    /\ versionArg = NONE /\ infoUrlArg = NONE /\ stampWithHeader = NONE
    /\ scanLines = NONE /\ scanIndex = NONE /\ scanKey = NONE /\ scanItems = NONE

NextStrip == StripQuotes

SpecStrip == InitStrip /\ [][NextStrip]_vars

---------------------------------------------------------------------------
(* Properties of stripQuotes (SpecStrip)                                   *)

\* t is enclosed in a matching pair of quotes: an opening and a closing quote
\* character of the same kind
Enclosed(t) == Len(t) >= 2 /\ t[1] \in {DQ, SQ} /\ t[Len(t)] = t[1]

\* C14: stripQuotes removes one pair of surrounding quotes when the trimmed value is
\* enclosed in a matching pair of double or of single quotes, and otherwise returns
\* the value unchanged apart from the trimming of outer white space.
C14_StripsOnlyPairs ==
    pc = "stripQuotes" =>
        LET trimmed == Trim(rawValue)
        IN  IF Enclosed(trimmed)
            THEN stripped = SubSeq(trimmed, 2, Len(trimmed) - 1)
            ELSE stripped = trimmed

\* The values on which the code departs from C14: a quote character on its own
C14_LoneQuoteOnly ==
    (pc = "stripQuotes" /\ ~C14_StripsOnlyPairs) =>
        /\ Trim(rawValue) \in {<<DQ>>, <<SQ>>}
        /\ stripped = <<>>

---------------------------------------------------------------------------
(* parseBlock step by step: the scanner (SpecScan, SpecScanFair)           *)

MaxScanLines == 4

\* Lines of a body: a scalar line, a list header, a quoted and indented item, an
\* item that holds a colon, a blank line, a line without colon, a line without key.
ScanLineChoices ==
    {<<"k", ":", SP, "a">>,
     <<"k", ":">>,
     <<SP, SP, "-", SP, DQ, "b", DQ>>,
     <<"-", SP, "j", ":", SP, "e">>,
     <<>>,
     <<"x">>,
     <<":", SP, "a">>}

ScanBodies == {Join(ls, <<NL>>) : ls \in SeqsUpTo(ScanLineChoices, MaxScanLines)}

\* A mutation of i++: the index stays where it is.
SameIndex(n) == n

\* i++
Increment(n) == n + 1

\* Lines 65-73 for the line at index n (0-based)
TrimmedAt(ls, n) == Trim(ls[n + 1])
ColonIdxAt(ls, n) == IndexOf(TrimmedAt(ls, n), ":")
KeyAt(ls, n) == Trim(Slice(TrimmedAt(ls, n), 0, ColonIdxAt(ls, n)))
AfterColonAt(ls, n) ==
    Trim(Slice(TrimmedAt(ls, n), ColonIdxAt(ls, n) + 1, Len(TrimmedAt(ls, n))))

\* The three tests that end an iteration with i++; continue (lines 67, 70, 75)
Skipped(ls, n) ==
    \/ TrimmedAt(ls, n) = <<>>
    \/ ColonIdxAt(ls, n) = -1
    \/ KeyAt(ls, n) = <<>>

\* Lines 67, 70, 75: a blank line, a line without colon, a line without key
SkipLine ==
    /\ pc = "scanning"
    /\ scanIndex < Len(scanLines)
    /\ Skipped(scanLines, scanIndex)
    /\ scanIndex' = Increment(scanIndex)
    /\ UNCHANGED <<pc, Inputs, block, zg, result, stamp, reparsed, embText,
                   otherText, embeddingArg, now, fullJSON, rawValue, stripped, versionArg,
                   infoUrlArg, stampWithHeader, scanLines, scanKey, scanItems>>

\* Lines 78-80: `key:` with nothing after the colon opens a list
ListHeader ==
    /\ pc = "scanning"
    /\ scanIndex < Len(scanLines)
    /\ ~Skipped(scanLines, scanIndex)
    /\ AfterColonAt(scanLines, scanIndex) = <<>>
    /\ scanKey' = KeyAt(scanLines, scanIndex)
    /\ scanItems' = <<>>
    /\ scanIndex' = Increment(scanIndex)
    /\ pc' = "collecting"
    /\ UNCHANGED <<Inputs, block, zg, result, stamp, reparsed, embText,
                   otherText, embeddingArg, now, fullJSON, rawValue, stripped, versionArg,
                   infoUrlArg, stampWithHeader, scanLines>>

\* A mutation of the item test: the line is not trimmed first.
AtItemUntrimmed(ls, n) == n < Len(ls) /\ StartsWith(ls[n + 1], <<"-", SP>>)

\* while (i < lines.length) and the line starts with "- " (lines 81-86)
AtItem(ls, n) == n < Len(ls) /\ StartsWith(TrimmedAt(ls, n), <<"-", SP>>)

\* Lines 84-86: the item is pushed
ItemLine ==
    /\ pc = "collecting"
    /\ AtItem(scanLines, scanIndex)
    /\ scanItems' = Append(scanItems,
                            stripQuotes(Slice(TrimmedAt(scanLines, scanIndex), 2,
                                              Len(TrimmedAt(scanLines, scanIndex)))))
    /\ scanIndex' = Increment(scanIndex)
    /\ UNCHANGED <<pc, Inputs, block, zg, result, stamp, reparsed, embText,
                   otherText, embeddingArg, now, fullJSON, rawValue, stripped, versionArg,
                   infoUrlArg, stampWithHeader, scanLines, scanKey>>

\* Lines 81, 87-94: the inner loop ends at the end of the lines or at a line that
\* is not an item; the items are stored if there is one; continue
EndList ==
    /\ pc = "collecting"
    /\ ~AtItem(scanLines, scanIndex)
    /\ fieldMap' = StoreItems(fieldMap, scanKey, scanItems)
    /\ scanKey' = <<>>
    /\ scanItems' = <<>>
    /\ pc' = "scanning"
    /\ UNCHANGED <<text, blockBody, other, block, zg, result, stamp, reparsed, embText,
                   otherText, embeddingArg, now, fullJSON, rawValue, stripped, versionArg,
                   infoUrlArg, stampWithHeader, scanLines, scanIndex>>

\* Lines 98-99: a single-value field
SingleValue ==
    /\ pc = "scanning"
    /\ scanIndex < Len(scanLines)
    /\ ~Skipped(scanLines, scanIndex)
    /\ AfterColonAt(scanLines, scanIndex) # <<>>
    /\ \E key \in {KeyAt(scanLines, scanIndex)} :
       \E afterColon \in {AfterColonAt(scanLines, scanIndex)} :
          fieldMap' = Set(fieldMap, key, Str(stripQuotes(afterColon)))
    /\ scanIndex' = Increment(scanIndex)
    /\ UNCHANGED <<pc, text, blockBody, other, block, zg, result, stamp, reparsed, embText,
                   otherText, embeddingArg, now, fullJSON, rawValue, stripped, versionArg,
                   infoUrlArg, stampWithHeader, scanLines, scanKey, scanItems>>

\* Lines 64, 102: the outer loop ends and the fields are returned
ReturnFields ==
    /\ pc = "scanning"
    /\ ~(scanIndex < Len(scanLines))
    /\ pc' = "parseBlock"
    /\ UNCHANGED <<Inputs, block, zg, result, stamp, reparsed, embText,
                   otherText, embeddingArg, now, fullJSON, rawValue, stripped, versionArg,
                   infoUrlArg, stampWithHeader, scanLines, scanIndex, scanKey, scanItems>>

\* The scanner after lines 60-62: no field, the lines of the body, i = 0
InitScan ==
    /\ pc = "scanning"
    /\ blockBody \in ScanBodies
    /\ fieldMap = <<>>
    /\ scanLines = Split(blockBody)
    /\ scanIndex = 0
    /\ scanKey = <<>> /\ scanItems = <<>>
    /\ text = <<>> /\ other = <<>>
    /\ block = NONE /\ zg = NONE /\ result = NONE /\ stamp = NONE
    /\ reparsed = NONE /\ embText = NONE /\ otherText = NONE
    /\ embeddingArg = NONE /\ now = NONE /\ fullJSON = NONE
    /\ rawValue = NONE /\ stripped = NONE
    /\ versionArg = NONE /\ infoUrlArg = NONE /\ stampWithHeader = NONE

NextScan ==
    \/ SkipLine
    \/ ListHeader
    \/ ItemLine
    \/ EndList
    \/ SingleValue
    \/ ReturnFields

SpecScan == InitScan /\ [][NextScan]_vars

MaxFairLines == 3

\* The scanner on bodies of up to MaxFairLines lines
InitScanFair == InitScan /\ Len(scanLines) <= MaxFairLines

\* The scanner is a sequential loop: it takes its next step as long as it has one
SpecScanFair == InitScanFair /\ [][NextScan]_vars /\ WF_vars(NextScan)

\* The step-by-step scanner returns what parseBlock returns
ScanIsParseBlock == pc = "parseBlock" => fieldMap = parseBlock(blockBody)

---------------------------------------------------------------------------
(* Properties of the scanner: lists (SpecScan)                             *)

\* The line number (from 1) of the header whose items are being collected
HeaderLine == scanIndex - Len(scanItems)

\* While items are collected, they are the items of the lines between the header
\* and the scanner, in order, and those lines are all item lines.
CollectingRun ==
    pc = "collecting" =>
        /\ HeaderLine \in 1..Len(scanLines)
        /\ IsKeyLine(scanLines, HeaderLine)
        /\ IsHeaderShape(scanLines[HeaderLine])
        /\ KeyOf(scanLines[HeaderLine]) = scanKey
        /\ \A n \in (HeaderLine + 1)..scanIndex : IsItemShape(scanLines[n])
        /\ scanItems = SubSeq(ItemRun(scanLines, HeaderLine + 1), 1, Len(scanItems))

\* When collecting ends, the items are the maximal run after the header, the list
\* is stored under the header's key if it has an item, and the scanner stays at
\* the line that ended the run, which the outer loop reads next.
RunStored ==
    (pc = "collecting" /\ pc' = "scanning") =>
        LET run == ItemRun(scanLines, HeaderLine + 1)
        IN  /\ scanItems = run
            /\ scanIndex = HeaderLine + Len(run)
            /\ (scanIndex < Len(scanLines) => ~IsItemShape(scanLines[scanIndex + 1]))
            /\ scanIndex' = scanIndex
            /\ fieldMap' = IF run # <<>>
                            THEN Set(fieldMap, KeyOf(scanLines[HeaderLine]), List(run))
                            ELSE fieldMap

\* In the returned map, the key of a header line with items that no later line of
\* the key overrides holds exactly the run of items after the header.
RunReturned ==
    pc = "parseBlock" =>
        \A n \in 1..Len(scanLines) :
            (/\ GivesValue(scanLines, n)
             /\ IsHeaderShape(scanLines[n])
             /\ \A m \in (n + 1)..Len(scanLines) :
                   ~(GivesValue(scanLines, m) /\ KeyOf(scanLines[m]) = KeyOf(scanLines[n])))
            => Get(fieldMap, KeyOf(scanLines[n])) = List(ItemRun(scanLines, n + 1))

\* C15: the list stored for a `key:` header line is exactly the maximal run of
\* consecutive `- value` lines (any indentation) right after the header, in their
\* order; scanning stops at the first line that is not an item, that line is read
\* next as an ordinary line, and item lines after it are not added to the list.
C15_ListIsItemRun == []CollectingRun /\ [][RunStored]_vars /\ []RunReturned

\* A list of one item was cut short by a blank line, and the item line after the
\* blank line was read as an ordinary line
C15_Witness ==
    /\ pc = "parseBlock"
    /\ scanLines = <<K("k") \o <<":">>, <<SP, SP, "-", SP, DQ, "b", DQ>>, <<>>,
                     <<"-", SP, "j", ":", SP, "e">> >>
    /\ Get(fieldMap, K("k")) = List(<<K("b")>>)
    /\ Get(fieldMap, <<"-", SP, "j">>) = Str(K("e"))

---------------------------------------------------------------------------
(* Properties of the scanner: progress (SpecScanFair)                      *)

Scanning == pc \in {"scanning", "collecting"}

\* The index never decreases, and a step of the outer loop at a line moves it on
\* by at least one line.
IndexAdvances ==
    Scanning =>
        /\ scanIndex' >= scanIndex
        /\ (pc = "scanning" /\ scanIndex < Len(scanLines) => scanIndex' >= scanIndex + 1)

\* The index stays within the lines, and is the number of lines at the return;
\* the map returned is parseBlock's.
IndexInRange ==
    /\ (Scanning => scanIndex \in 0..Len(scanLines))
    /\ (pc = "collecting" => scanIndex >= 1)
    /\ (pc = "parseBlock" => scanIndex = Len(scanLines) /\ fieldMap = parseBlock(blockBody))

\* C17: parseBlock terminates on every body: the line index never decreases, every
\* iteration of the outer loop advances it by at least one line, and the scan ends
\* with the index equal to the number of lines and a field map returned.
C17_ScanTerminates ==
    /\ [][IndexAdvances]_vars
    /\ []IndexInRange
    /\ <>(pc = "parseBlock")

\* A scan has ended on a body with a header followed by a line that is no item and
\* a header that is the last line
C17_Witness ==
    /\ pc = "parseBlock"
    /\ scanLines = <<K("k") \o <<":">>, K("x"), K("k") \o <<":">> >>
    /\ scanIndex = 3
    /\ fieldMap = <<>>

---------------------------------------------------------------------------
(* formatStamp and formatStampWithHeader on caller-built objects (SpecFormat) *)

\* version = '0.1': the default stands in for an argument that is undefined
VersionOrDefault(versionOption) ==
    IF versionOption = UNDEFINED THEN DEFAULT_VERSION ELSE ToStr(versionOption)

\* The header line (its first character, a planet emoji, is written [planet])
HEADER == "[planet] Zero Gravity"

\* Lines 235-237
Tagline(infoUrl) ==
    IF Truthy(infoUrl)
    THEN <<"Semantic encoding for AI agents | [learn more](">> \o ToStr(infoUrl) \o <<")">>
    ELSE <<"Semantic encoding for AI agents">>

formatStampWithHeader(fields, infoUrl, versionOption) ==
    LET dataBlock == formatStamp(fields, VersionOrDefault(versionOption))
    IN  <<HEADER, NL>> \o Tagline(infoUrl) \o <<NL, NL>> \o dataBlock

FormatMaps ==
    {ObjOf(<<Prop("encoding", e), Prop("version", v), Prop("title", t),
             Prop("intent", i), Prop("indexes", x)>>) :
        e \in {UNDEFINED, Str(K("zero-gravity")), Str(K("other"))},
        v \in {UNDEFINED, Str(K("2"))},
        t \in {UNDEFINED, Str(<<>>), Str(K("T")), List(<<K("a"), K("b")>>)},
        i \in {UNDEFINED, Str(K("proposal"))},
        x \in {UNDEFINED, Str(K("s"))} \cup Arrays(ItemChoices)}

\* formatStamp(fieldMap, versionArg)
FormatStampVersion ==
    /\ pc = "input"
    /\ stamp' = formatStamp(fieldMap, VersionOrDefault(versionArg))
    /\ pc' = "formatStamp"
    /\ UNCHANGED <<Inputs, block, zg, result, reparsed, embText, otherText,
                   embeddingArg, now, fullJSON, rawValue, stripped, versionArg, infoUrlArg,
                   stampWithHeader, scanLines, scanIndex, scanKey, scanItems>>

\* formatStampWithHeader(fieldMap, infoUrlArg, versionArg)
FormatStampWithHeader ==
    /\ pc = "formatStamp"
    /\ stampWithHeader' = formatStampWithHeader(fieldMap, infoUrlArg, versionArg)
    /\ pc' = "formatStampWithHeader"
    /\ UNCHANGED <<Inputs, block, zg, result, stamp, reparsed, embText, otherText,
                   embeddingArg, now, fullJSON, rawValue, stripped, versionArg, infoUrlArg,
                   scanLines, scanIndex, scanKey, scanItems>>

InitFormat ==
    /\ pc = "input"
    /\ fieldMap \in FormatMaps
    /\ versionArg \in {UNDEFINED, Str(K("0.2"))}
    /\ infoUrlArg \in {UNDEFINED, Str(<<>>), Str(K("u"))}
    /\ text = <<>> /\ blockBody = <<>> /\ other = <<>>
    /\ block = NONE /\ zg = NONE /\ result = NONE /\ stamp = NONE
    /\ reparsed = NONE /\ embText = NONE /\ otherText = NONE
    /\ embeddingArg = NONE /\ now = NONE /\ fullJSON = NONE
    /\ rawValue = NONE /\ stripped = NONE
    /\ stampWithHeader = NONE
    /\ scanLines = NONE /\ scanIndex = NONE /\ scanKey = NONE /\ scanItems = NONE

NextFormat == FormatStampVersion \/ FormatStampWithHeader

SpecFormat == InitFormat /\ [][NextFormat]_vars

---------------------------------------------------------------------------
(* Properties of formatStamp and formatStampWithHeader (SpecFormat)        *)

Formatted == pc \in {"formatStamp", "formatStampWithHeader"}

\* key: "value"
QuotedLine(key, v) == <<key, ":", SP, DQ>> \o v \o <<DQ>>

\* The `indexes:` header and one `  - "item"` line per element, in order, when
\* indexes is a list with an item; nothing otherwise
IndexesLines(fields) ==
    LET x == Get(fields, K("indexes"))
    IN  IF IsArray(x) /\ x.val # <<>>
        THEN << <<"indexes", ":">> >>
             \o [n \in 1..Len(x.val) |-> <<SP, SP, "-", SP, DQ>> \o x.val[n] \o <<DQ>>]
        ELSE <<>>

\* The scalar line of a field that is present, rendered from the field's value
LineIfPresent(fields, name) ==
    IF HasKey(fields, K(name)) THEN <<QuotedLine(name, ToStr(Get(fields, K(name))))>> ELSE <<>>

\* The scalar line of a field that is present and not the empty string
LineIfNotEmpty(fields, name) ==
    IF Truthy(Get(fields, K(name))) THEN <<QuotedLine(name, ToStr(Get(fields, K(name))))>> ELSE <<>>

\* The text under a header: the header line, the tagline, a blank line, the block
UnderHeader(blockText) ==
    Split(stampWithHeader) =
        << <<HEADER>>,
           IF infoUrlArg \in {UNDEFINED, Str(<<>>)}
           THEN <<"Semantic encoding for AI agents">>
           ELSE <<"Semantic encoding for AI agents | [learn more](">> \o infoUrlArg.val \o <<")">>,
           <<>> >> \o Split(blockText)

\* C16, as stated: the BEGIN marker, the scalar lines encoding, version, title,
\* intent, each only if the field is present in fields and with the field's value
\* in double quotes, the indexes header and item lines if indexes is a non-empty
\* list, and the END marker; formatStampWithHeader gives the same block under the
\* two header lines and a blank line.
C16_LinesOfPresentFields ==
    /\ Formatted =>
          Split(stamp) =
              << <<BEGIN_MARKER>> >>
              \o LineIfPresent(fieldMap, "encoding") \o LineIfPresent(fieldMap, "version")
              \o LineIfPresent(fieldMap, "title") \o LineIfPresent(fieldMap, "intent")
              \o IndexesLines(fieldMap)
              \o << <<END_MARKER>> >>
    /\ pc = "formatStampWithHeader" => UnderHeader(stamp)

\* C16, amended: the BEGIN marker; the line encoding: "zero-gravity" and the line
\* version: "<the version argument, 0.1 by default>", both always and whatever
\* fields holds; the lines title and intent, each only if the field is present and
\* not the empty string, with the field's value (as text) in double quotes; the
\* indexes header and item lines if indexes is a non-empty list; the END marker.
\* formatStampWithHeader gives the same block under the two header lines and a
\* blank line.
C16_LinesOfStamp ==
    /\ Formatted =>
          Split(stamp) =
              << <<BEGIN_MARKER>>,
                 QuotedLine("encoding", <<"zero-gravity">>),
                 QuotedLine("version", IF versionArg = UNDEFINED THEN <<"0.1">> ELSE versionArg.val) >>
              \o LineIfNotEmpty(fieldMap, "title") \o LineIfNotEmpty(fieldMap, "intent")
              \o IndexesLines(fieldMap)
              \o << <<END_MARKER>> >>
    /\ pc = "formatStampWithHeader" => UnderHeader(stamp)

\* A stamp with a title, an intent and two indexes was formatted with a version
\* argument from fields that hold no encoding and no version, and put under a
\* header with a link
C16_Witness ==
    /\ pc = "formatStampWithHeader"
    /\ Keys(fieldMap) = <<K("title"), K("intent"), K("indexes")>>
    /\ Get(fieldMap, K("indexes")) = List(<<K("a"), K("b")>>)
    /\ versionArg = Str(K("0.2"))
    /\ infoUrlArg = Str(K("u"))
    /\ Len(Split(stamp)) = 9
    /\ Len(Split(stampWithHeader)) = 12
    /\ Split(stamp)[3] = <<"version", ":", SP, DQ, "0.2", DQ>>
    /\ Split(stamp)[8] = <<SP, SP, "-", SP, DQ, "b", DQ>>

====
